---- MODULE Spec2Model ----
(***************************************************************************)
(* Model of the business discovery pipeline of main.py: the page loop of   *)
(* BusinessLogic.find_businesses, the concurrent detail lookups of          *)
(* BusinessLogic.get_business_details, and the memoised BusinessLogic.fetch *)
(* (@cached(ttl=3600)).                                                     *)
(*                                                                          *)
(* JSON objects are functions whose DOMAIN is the set of keys present.      *)
(* Python's None is the string NoneVal where a string is expected.          *)
(* Every element of the accumulator `businesses` carries, next to the       *)
(* record get_business_details returned, the page and the position of the   *)
(* task that produced it; `returned` holds the bare records.                *)
(***************************************************************************)
EXTENDS Integers, Sequences, FiniteSets, TLC

\* ---------------------------------------------------------------- bounds
MaxRuns == 2        \* searches started from the GUI in one process
MaxPages == 3       \* cap on the page counter of one run
MaxPlace == 2       \* distinct place identifiers the remote API knows
MaxPerPage == 2     \* place identifiers on one search page
MaxAddr == 2        \* distinct memory addresses a ClientSession can get
MaxJumps == 1       \* TTL-long steps of the clock
MaxGets == 6        \* session.get calls of the process
MaxReviews == 2     \* reviews in one detail result

\* ------------------------------------------------------ program constants
TTL == 3600                         \* @cached(ttl=3600)
Delay == 2                          \* asyncio.sleep(2)
RecentWindow == 30 * 24 * 60 * 60   \* 30*24*60*60 seconds
StartTime == RecentWindow           \* time.time() when the process starts

NoneVal == "None"
ApiKey == "KEY"
SelfRepr == "BusinessLogic@1"       \* str(self): one instance per process

EmptyDict == [k \in {} |-> ""]

Truthy(s) == s # NoneVal /\ s # ""

Get(d, k, default) == IF k \in DOMAIN d THEN d[k] ELSE default

\* ------------------------------------------------------------ input sets
Addrs == 1..MaxAddr
BusinessTypes == {"plumber"}
Location == "39.95,-75.16"
Radius == "9656"

Place(i) == "place" \o ToString(i)

\* The result list of a search page that starts at the i-th place: n
\* identifiers, wrapping around the known places.
PageFrom(i, n) == [k \in 1..n |-> Place(((i + k - 2) % MaxPlace) + 1)]

\* Bodies the search endpoint can answer with: with or without a result
\* list, with or without a continuation token, the token possibly empty, the
\* same identifier possibly twice on a page.
SearchBodies ==
  { [status |-> "ZERO_RESULTS"],
    [status |-> "INVALID_REQUEST", next_page_token |-> "tokB"],
    [results |-> PageFrom(1, MaxPerPage), next_page_token |-> "tokA"],
    [results |-> PageFrom(2, MaxPerPage)],
    [results |-> <<Place(1), Place(1)>>, next_page_token |-> "tokB"],
    [results |-> <<Place(1)>>, next_page_token |-> ""] }

\* The body the detail endpoint answers with for the i-th place: a business
\* with a phone, an answer without a result object, a business with a
\* website and no phone.
DetailBodyOf(i) ==
  CASE i % 3 = 1 -> [result |-> [name |-> "Acme", formatted_phone_number |-> "555",
                                 types |-> <<"plumber", "store">>]]
    [] i % 3 = 2 -> [status |-> "NOT_FOUND"]
    [] OTHER -> [result |-> [name |-> "Bolt", website |-> "http://bolt"]]

DetailBody(place_id) ==
  DetailBodyOf(CHOOSE i \in 1..MaxPlace : place_id = Place(i))

NoFilters ==
  [without_website |-> FALSE, operational |-> FALSE, has_phone |-> FALSE,
   has_recent_reviews |-> FALSE, has_any_reviews |-> FALSE]

\* Filter settings a run is started with.
RunFilters ==
  { NoFilters, [NoFilters EXCEPT !.has_phone = TRUE] }

\* ------------------------------------------------------------------ URLs
build_url_no_token(location, radius, business_type, next_page_token) ==
  LET base == <<"nearbysearch", <<"location", location>>, <<"radius", radius>>,
                <<"key", ApiKey>>>>
  IN IF Truthy(business_type)
     THEN Append(base, <<"type", business_type>>) ELSE base

\* A URL is the sequence of its query parameters behind the endpoint name,
\* in the order the f-strings append them.
build_url(location, radius, business_type, next_page_token) ==
  LET base == <<"nearbysearch", <<"location", location>>, <<"radius", radius>>,
                <<"key", ApiKey>>>>
      typed == IF Truthy(business_type)
               THEN Append(base, <<"type", business_type>>) ELSE base
  IN IF Truthy(next_page_token)
     THEN Append(typed, <<"pagetoken", next_page_token>>) ELSE typed

details_url(place_id) ==
  <<"details", <<"place_id", place_id>>, <<"key", ApiKey>>>>

\* ------------------------------------------------------------- the cache
\* aiocache's default key of a decorated call: module, function name and
\* str(args), the arguments here being (self, session, url).
CacheKey(session, url) == <<"fetch", SelfRepr, session, url>>

ExpiryNever(entry, now) == TRUE

\* An entry answers a call until ttl seconds after it was stored.
Fresh(entry, now) == now < entry.expiry

CacheHit(c, key, now) == key \in DOMAIN c /\ Fresh(c[key], now)

CacheSet(c, key, value, now) ==
  (key :> [value |-> value, expiry |-> now + TTL]) @@ c

\* ------------------------------------------------- get_business_details
RECURSIVE JoinComma(_)
JoinComma(types) ==
  IF Len(types) = 0 THEN ""
  ELSE IF Len(types) = 1 THEN types[1]
  ELSE types[1] \o ", " \o JoinComma(Tail(types))

HasRecentReview(result, now) ==
  LET reviews == Get(result, "reviews", <<>>)
  IN \E i \in 1..Len(reviews) : reviews[i].time > now - RecentWindow

PassesFiltersElif(result, flt, now) ==
  IF flt.without_website THEN "website" \notin DOMAIN result
  ELSE IF flt.operational THEN Get(result, "business_status", NoneVal) = "OPERATIONAL"
  ELSE IF flt.has_phone THEN "formatted_phone_number" \in DOMAIN result
  ELSE IF flt.has_recent_reviews THEN HasRecentReview(result, now)
  ELSE IF flt.has_any_reviews THEN Len(Get(result, "reviews", <<>>)) > 0
  ELSE TRUE

\* The five filter checks of get_business_details: TRUE when none of them
\* returns None.
PassesFilters(result, flt, now) ==
  /\ ~(flt.without_website /\ "website" \in DOMAIN result)
  /\ ~(flt.operational /\ Get(result, "business_status", NoneVal) # "OPERATIONAL")
  /\ ~(flt.has_phone /\ "formatted_phone_number" \notin DOMAIN result)
  /\ ~(flt.has_recent_reviews /\ ~HasRecentReview(result, now))
  /\ ~(flt.has_any_reviews /\ Len(Get(result, "reviews", <<>>)) = 0)

BusinessRecord(result) ==
  [name |-> result.name,
   phone |-> Get(result, "formatted_phone_number", "N/A"),
   website |-> Get(result, "website", "N/A"),
   address |-> Get(result, "formatted_address", "N/A"),
   industry |-> JoinComma(Get(result, "types", <<>>)),
   business_status |-> Get(result, "business_status", "N/A")]

ReturnNone == [kind |-> "none"]
RaiseKeyError == [kind |-> "raise", exc |-> "KeyError"]

\* What get_business_details does with a fetched body: result.get('result',
\* {}), the filters, then the record, whose result['name'] raises KeyError
\* when the name is missing.
DetailOutcome(body, flt, now) ==
  LET result == Get(body, "result", EmptyDict)
  IN IF ~PassesFilters(result, flt, now) THEN ReturnNone
     ELSE IF "name" \notin DOMAIN result THEN RaiseKeyError
     ELSE [kind |-> "record", rec |-> BusinessRecord(result)]

OnFetchErrorRaise == [kind |-> "raise", exc |-> "ClientError"]

\* The except branch around the detail fetch: log and return None.
OnFetchError == ReturnNone

\* ------------------------------------------------------ find_businesses
VARIABLES
  clock,            \* the time, in seconds
  cache,            \* the memory cache behind @cached: key -> [value, expiry]
  runs,             \* number of find_businesses calls started
  pc,               \* where the current run is
  session,          \* address in str(session) of the run's ClientSession
  business_type,    \* the run's business_type argument
  filters,          \* the run's filters argument
  businesses, next_page_token, page, json_response,
  tasks,            \* the detail tasks handed to asyncio.gather
  returned,         \* what the run gave its caller
  progress,         \* the messages status_callback received in this run
  net,              \* history: number of session.get calls of this run
  delay,            \* history: start and number of the asyncio.sleep calls of this run
  accepted,         \* history: the records get_business_details returned in this run
  gets              \* history: number of session.get calls of the process

vars == <<clock, cache, runs, pc, session, business_type, filters, businesses,
          next_page_token, page, json_response, tasks, returned, progress,
          net, delay, accepted, gets>>

Pending == [kind |-> "pending"]
ReturnList(bs) == [kind |-> "list", val |-> [i \in 1..Len(bs) |-> bs[i].rec]]

Terminal == {"done", "failed", "crashed"}

NoDelay == [start |-> 0, count |-> 0]
NoGets == [search |-> 0, detail |-> 0]

Init ==
  /\ clock = StartTime
  /\ cache = EmptyDict
  /\ runs = 0
  /\ pc = "idle"
  /\ session = 1
  /\ business_type = ""
  /\ filters = NoFilters
  /\ businesses = <<>>
  /\ next_page_token = NoneVal
  /\ page = 1
  /\ json_response = EmptyDict
  /\ tasks = <<>>
  /\ returned = Pending
  /\ progress = <<>>
  /\ net = NoGets
  /\ delay = NoDelay
  /\ accepted = {}
  /\ gets = 0

\* search() -> asyncio.run(async_search) -> find_businesses up to the loop.
\* The new ClientSession lies at an address an earlier session of the process
\* had, or at the next unused one.
StartRun(addr, bt, flt) ==
  /\ pc \in Terminal \cup {"idle"}
  /\ runs < MaxRuns
  /\ addr <= runs + 1
  /\ runs' = runs + 1
  /\ session' = addr
  /\ business_type' = bt
  /\ filters' = flt
  /\ businesses' = <<>>
  /\ next_page_token' = NoneVal
  /\ page' = 1
  /\ json_response' = EmptyDict
  /\ tasks' = <<>>
  /\ returned' = Pending
  /\ progress' = <<>>
  /\ net' = NoGets
  /\ delay' = NoDelay
  /\ accepted' = {}
  /\ pc' = "loop"
  /\ UNCHANGED <<clock, cache, gets>>

SearchUrl == build_url(Location, Radius, business_type, next_page_token)

StatusMessageFromZero(n) == <<"Searching page ", n - 1, "...">>

\* f"Searching page {page}..."
StatusMessage(n) == <<"Searching page ", n, "...">>

NewTasks(results) ==
  [i \in 1..Len(results) |-> [place_id |-> results[i], st |-> "new", out |-> ReturnNone,
                             how |-> "", body |-> EmptyDict]]

AfterSearchLenient(body) ==
  /\ json_response' = body
  /\ pc' = "gather"
  /\ tasks' = NewTasks(Get(body, "results", <<>>))
  /\ UNCHANGED returned

\* Lines 152-155: the page's body is in hand.
AfterSearch(body) ==
  /\ json_response' = body
  /\ IF "results" \notin DOMAIN body
     THEN /\ pc' = "done"
          /\ returned' = ReturnList(businesses)
          /\ UNCHANGED tasks
     ELSE /\ pc' = "gather"
          /\ tasks' = NewTasks(body.results)
          /\ UNCHANGED returned

SearchHit ==
  /\ pc = "loop"
  /\ CacheHit(cache, CacheKey(session, SearchUrl), clock)
  /\ progress' = Append(progress, StatusMessage(page))
  /\ AfterSearch(cache[CacheKey(session, SearchUrl)].value)
  /\ UNCHANGED <<clock, cache, runs, session, business_type, filters, businesses,
                 next_page_token, page, net, delay, accepted, gets>>

SearchMiss ==
  /\ pc = "loop"
  /\ ~CacheHit(cache, CacheKey(session, SearchUrl), clock)
  /\ progress' = Append(progress, StatusMessage(page))
  /\ gets < MaxGets
  /\ gets' = gets + 1
  /\ net' = [net EXCEPT !.search = @ + 1]
  /\ pc' = "awaitsearch"
  /\ UNCHANGED <<clock, cache, runs, session, business_type, filters, businesses,
                 next_page_token, page, json_response, tasks, returned, delay, accepted>>

SearchResponseOk(body) ==
  /\ pc = "awaitsearch"
  /\ cache' = CacheSet(cache, CacheKey(session, SearchUrl), body, clock)
  /\ AfterSearch(body)
  /\ UNCHANGED <<clock, runs, session, business_type, filters, businesses,
                 next_page_token, page, progress, net, delay, accepted, gets>>

OnSearchErrorEmpty(bs) == ReturnList(<<>>)

\* except Exception: print, break; then return businesses.
OnSearchError(bs) == ReturnList(bs)

SearchResponseFail ==
  /\ pc = "awaitsearch"
  /\ pc' = "failed"
  /\ returned' = OnSearchError(businesses)
  /\ UNCHANGED <<clock, cache, runs, session, business_type, filters, businesses,
                 next_page_token, page, json_response, tasks, progress, net, delay, accepted, gets>>

\* ----------------------------------------------------- the detail tasks
Running == pc \in {"loop", "awaitsearch", "gather", "sleep"}

DetailKey(i) == CacheKey(session, details_url(tasks[i].place_id))

\* A task finishes with what get_business_details returned; `how` and
\* `body` keep how its body was obtained and what it was.
Finish(i, how, body, out) ==
  /\ tasks' = [tasks EXCEPT ![i] = [@ EXCEPT !.st = "done", !.out = out,
                                             !.how = how, !.body = body]]
  /\ accepted' = IF out.kind = "record"
                 THEN accepted \cup {[page |-> page, idx |-> i, rec |-> out.rec]}
                 ELSE accepted

DetailHit(i) ==
  /\ Running
  /\ i \in 1..Len(tasks)
  /\ tasks[i].st = "new"
  /\ CacheHit(cache, DetailKey(i), clock)
  /\ LET body == cache[DetailKey(i)].value
     IN Finish(i, "hit", body, DetailOutcome(body, filters, clock))
  /\ UNCHANGED <<clock, cache, runs, pc, session, business_type, filters,
                 businesses, next_page_token, page, json_response, returned,
                 progress, net, delay, gets>>

DetailMiss(i) ==
  /\ Running
  /\ i \in 1..Len(tasks)
  /\ tasks[i].st = "new"
  /\ ~CacheHit(cache, DetailKey(i), clock)
  /\ tasks' = [tasks EXCEPT ![i].st = "fetching"]
  /\ gets < MaxGets
  /\ gets' = gets + 1
  /\ net' = [net EXCEPT !.detail = @ + 1]
  /\ UNCHANGED <<clock, cache, runs, pc, session, business_type, filters,
                 businesses, next_page_token, page, json_response, returned,
                 progress, delay, accepted>>

DetailResponseOk(i) ==
  /\ Running
  /\ i \in 1..Len(tasks)
  /\ tasks[i].st = "fetching"
  /\ LET body == DetailBody(tasks[i].place_id)
     IN /\ cache' = CacheSet(cache, DetailKey(i), body, clock)
        /\ Finish(i, "ok", body, DetailOutcome(body, filters, clock))
  /\ UNCHANGED <<clock, runs, pc, session, business_type, filters, businesses,
                 next_page_token, page, json_response, returned, progress,
                 net, delay, gets>>

DetailResponseFail(i) ==
  /\ Running
  /\ i \in 1..Len(tasks)
  /\ tasks[i].st = "fetching"
  /\ Finish(i, "fail", EmptyDict, OnFetchError)
  /\ UNCHANGED <<clock, cache, runs, pc, session, business_type, filters,
                 businesses, next_page_token, page, json_response, returned,
                 progress, net, delay, gets>>

\* ------------------------------------------------------- gather and on
GatherFirstCompleted(ts) == \E i \in 1..Len(ts) : ts[i].st = "done"

\* asyncio.gather returns when every task has finished.
GatherReady(ts) == \A i \in 1..Len(ts) : ts[i].st = "done"

Raised(ts) == \E i \in 1..Len(ts) : ts[i].st = "done" /\ ts[i].out.kind = "raise"

\* The results of asyncio.gather, in the order of the tasks.
GatherResults(ts) ==
  [i \in 1..Len(ts) |-> [page |-> page, idx |-> i, out |-> ts[i].out]]

RECURSIVE AccumulateFront(_, _)
AccumulateFront(bs, results) ==
  IF Len(results) = 0 THEN bs
  ELSE LET r == Head(results)
           rest == AccumulateFront(bs, Tail(results))
       IN IF r.out.kind = "record"
          THEN <<[page |-> r.page, idx |-> r.idx, rec |-> r.out.rec]>> \o rest
          ELSE rest

\* for business in results: if business: businesses.append(business)
RECURSIVE Accumulate(_, _)
Accumulate(bs, results) ==
  IF Len(results) = 0 THEN bs
  ELSE LET r == Head(results)
       IN Accumulate(IF r.out.kind = "record"
                     THEN Append(bs, [page |-> r.page, idx |-> r.idx, rec |-> r.out.rec])
                     ELSE bs,
                     Tail(results))

\* An exception of a task leaves gather and find_businesses uncaught;
\* asyncio.run cancels what is left and raises it in search().
GatherRaise ==
  /\ pc = "gather"
  /\ Raised(tasks)
  /\ pc' = "crashed"
  /\ returned' = RaiseKeyError
  /\ UNCHANGED <<clock, cache, runs, session, business_type, filters, businesses,
                 next_page_token, page, json_response, tasks, progress, net, delay, accepted, gets>>

\* Lines 156-165: the results are in, the token is read, the sleep begins
\* or the loop breaks.
GatherDone ==
  /\ pc = "gather"
  /\ GatherReady(tasks)
  /\ ~Raised(tasks)
  /\ businesses' = Accumulate(businesses, GatherResults(tasks))
  /\ next_page_token' = Get(json_response, "next_page_token", NoneVal)
  /\ IF Truthy(next_page_token')
     THEN /\ pc' = "sleep"
          /\ delay' = [start |-> clock, count |-> delay.count + 1]
          /\ UNCHANGED returned
     ELSE /\ pc' = "done"
          /\ returned' = ReturnList(businesses')
          /\ UNCHANGED delay
  /\ UNCHANGED <<clock, cache, runs, session, business_type, filters, page,
                 json_response, tasks, progress, net, accepted, gets>>

SleepSkipped(start, now) == TRUE

\* await asyncio.sleep(2) returns once 2 seconds have passed.
SleepOver(start, now) == now >= start + Delay

SleepDone ==
  /\ pc = "sleep"
  /\ SleepOver(delay.start, clock)
  /\ page < MaxPages
  /\ page' = page + 1
  /\ pc' = "loop"
  /\ UNCHANGED <<clock, cache, runs, session, business_type, filters, businesses,
                 next_page_token, json_response, tasks, returned, progress,
                 net, delay, accepted, gets>>

\* ---------------------------------------------------------------- time
\* Time passes second by second in the sleep, and by TTL seconds between two
\* searches.
Elapsed == clock - StartTime

Tick ==
  /\ pc = "sleep"
  /\ clock < delay.start + Delay
  /\ clock' = clock + 1
  /\ UNCHANGED <<cache, runs, pc, session, business_type, filters, businesses,
                 next_page_token, page, json_response, tasks, returned, progress,
                 net, delay, accepted, gets>>

Jump ==
  /\ pc \in Terminal
  /\ Elapsed \div TTL < MaxJumps
  /\ clock' = clock + TTL
  /\ UNCHANGED <<cache, runs, pc, session, business_type, filters, businesses,
                 next_page_token, page, json_response, tasks, returned, progress,
                 net, delay, accepted, gets>>

Next ==
  \/ \E addr \in Addrs, bt \in BusinessTypes, flt \in RunFilters : StartRun(addr, bt, flt)
  \/ SearchHit
  \/ SearchMiss
  \/ \E body \in SearchBodies : SearchResponseOk(body)
  \/ SearchResponseFail
  \/ \E i \in 1..MaxPerPage : DetailHit(i)
  \/ \E i \in 1..MaxPerPage : DetailMiss(i)
  \/ \E i \in 1..MaxPerPage : DetailResponseOk(i)
  \/ \E i \in 1..MaxPerPage : DetailResponseFail(i)
  \/ GatherRaise
  \/ GatherDone
  \/ SleepDone
  \/ Tick
  \/ Jump

Spec == Init /\ [][Next]_vars

\* ------------------------------------- get_business_details on its own
\* The filter chain over every shape of detail result: each optional field
\* absent or present, the website possibly empty, the reviews absent, empty,
\* old or recent.
FilterNames ==
  {"without_website", "operational", "has_phone", "has_recent_reviews",
   "has_any_reviews"}

AllFilters == [FilterNames -> BOOLEAN]

\* A review exactly RecentWindow old is not recent; one second younger is.
OldReview == [time |-> StartTime - RecentWindow]
RecentReview == [time |-> StartTime - RecentWindow + 1]

ReviewLists == UNION {[1..n -> {OldReview, RecentReview}] : n \in 0..MaxReviews}

Opt(k, vals) == {EmptyDict} \cup {k :> v : v \in vals}

DetailResults ==
  {n @@ w @@ b @@ p @@ r :
     n \in Opt("name", {"Acme"}),
     w \in Opt("website", {"", "http://acme"}),
     b \in Opt("business_status", {"OPERATIONAL", "CLOSED_TEMPORARILY"}),
     p \in Opt("formatted_phone_number", {"555"}),
     r \in Opt("reviews", ReviewLists)}

\* One call of get_business_details in flight: the filters of the search
\* form, and the body the detail endpoint is answering with.
FilterInit ==
  /\ clock = StartTime
  /\ cache = EmptyDict
  /\ runs = 1
  /\ pc = "gather"
  /\ session = 1
  /\ business_type = "plumber"
  /\ filters \in AllFilters
  /\ businesses = <<>>
  /\ next_page_token = NoneVal
  /\ page = 1
  /\ json_response = [results |-> <<Place(1)>>]
  /\ \E r \in DetailResults :
       tasks = <<[place_id |-> Place(1), st |-> "fetching", out |-> ReturnNone,
                  how |-> "", body |-> [result |-> r]]>>
  /\ returned = Pending
  /\ progress = <<StatusMessage(1)>>
  /\ net = [search |-> 1, detail |-> 1]
  /\ delay = NoDelay
  /\ accepted = {}
  /\ gets = 2

\* Lines 98-122 on the body that arrived.
EnrichFetched ==
  /\ pc = "gather"
  /\ Len(tasks) = 1
  /\ tasks[1].st = "fetching"
  /\ tasks[1].body # EmptyDict
  /\ Finish(1, "ok", tasks[1].body, DetailOutcome(tasks[1].body, filters, clock))
  /\ UNCHANGED <<clock, cache, runs, pc, session, business_type, filters, businesses,
                 next_page_token, page, json_response, returned, progress,
                 net, delay, gets>>

FilterNext ==
  \/ EnrichFetched
  \/ GatherRaise
  \/ GatherDone

FilterSpec == FilterInit /\ [][FilterNext]_vars

\* ---------------------------------------------------------------- claims
BusinessSet == {businesses[k] : k \in 1..Len(businesses)}

TaskIds == 1..Len(tasks)

TaskEntry(i) == [page |-> page, idx |-> i, rec |-> tasks[i].out.rec]

\* The run is past asyncio.gather of a page that had a result list.
PageFinished == pc = "sleep" \/ (pc = "done" /\ "results" \in DOMAIN json_response)

\* C1: when the search fetch of page k raises, the run stops: it returns the
\* accumulated list, which holds exactly the records get_business_details
\* returned on the pages before, no detail task is unfinished and no fetch,
\* task step or further page can follow.
C1_SearchFailureKeepsPartial ==
  pc = "failed" =>
    /\ returned = ReturnList(businesses)
    /\ BusinessSet = accepted
    /\ Len(businesses) = Cardinality(accepted)
    /\ \A i \in TaskIds : tasks[i].st = "done"
    /\ ~ENABLED (SearchHit \/ SearchMiss \/ SleepDone \/ GatherDone
                   \/ \E i \in 1..MaxPerPage : DetailHit(i) \/ DetailMiss(i))

C1_Witness ==
  pc = "failed" /\ page >= 2 /\ Len(businesses) >= 1 /\ returned.kind = "list"

\* C2: a detail task whose fetch raised returns None, as a rejected one does;
\* the run crashes only on a task that raised without a fetch error, and when
\* the page is finished every record the other tasks returned is in the
\* accumulator and the run goes on to the token.
C2_DetailFailureSkipsItem ==
  /\ \A i \in TaskIds :
       (tasks[i].st = "done" /\ tasks[i].how = "fail") => tasks[i].out = ReturnNone
  /\ pc = "crashed" =>
       \E i \in TaskIds : /\ tasks[i].st = "done"
                           /\ tasks[i].out.kind = "raise"
                           /\ tasks[i].how # "fail"
  /\ PageFinished =>
       \A i \in TaskIds : tasks[i].out.kind = "record" => TaskEntry(i) \in BusinessSet

C2_Witness ==
  /\ pc = "sleep"
  /\ \E i, j \in TaskIds : /\ tasks[i].how = "fail"
                            /\ tasks[j].out.kind = "record"
                            /\ TaskEntry(j) \in BusinessSet

\* C3: a fetched detail body without a name (or without a result object) makes
\* get_business_details return None, and the run never ends in an uncaught
\* exception.
C3_MissingFieldSkipsItem ==
  /\ \A i \in TaskIds :
       ( /\ tasks[i].st = "done"
         /\ tasks[i].how # "fail"
         /\ "name" \notin DOMAIN Get(tasks[i].body, "result", EmptyDict) )
       => tasks[i].out = ReturnNone
  /\ pc # "crashed"

\* C4: in a run of a fresh process, every search-page fetch that has returned
\* took the next scripted response: the number of fetches made equals the
\* number of responses the search endpoint has handed out, so that the run is
\* done after exactly as many fetches as the script has responses.
C4_ExactlyNFetches ==
  (runs = 1 /\ pc \in {"gather", "sleep", "done"}) => page = net.search

\* C5: whenever the run is past asyncio.gather (the token read, the sleep,
\* the next search request, the return), every detail task of the page has
\* finished.
C5_FanInBarrier ==
  pc \in {"sleep", "loop", "awaitsearch", "done", "failed"} =>
    \A i \in TaskIds : tasks[i].st = "done"

C5_Witness ==
  /\ pc = "awaitsearch"
  /\ page >= 2
  /\ Len(tasks) >= 2
  /\ \A i \in TaskIds : tasks[i].st = "done"

\* C6: in the accumulator, and in the list returned from it, a record of an
\* earlier page comes before every record of a later page.
C6_PageOrder ==
  /\ \A i, j \in 1..Len(businesses) :
       i < j => businesses[i].page <= businesses[j].page
  /\ returned.kind = "list" => returned = ReturnList(businesses)

C6_Witness ==
  /\ returned.kind = "list"
  /\ \E i, j \in 1..Len(businesses) : businesses[i].page < businesses[j].page

\* C7: the request of page 1 carries no token and follows no sleep; the
\* request of a later page carries a token and follows one sleep per page
\* before it, the last of them begun with the token in hand and at least
\* Delay seconds ago; in the sleep no task is unfinished and no request can
\* be issued; a run that has ended slept once per page but the last.
C7_DelayBeforeTokenRequests ==
  /\ (pc \in {"loop", "awaitsearch"} /\ page = 1) =>
       (delay.count = 0 /\ ~Truthy(next_page_token))
  /\ (pc \in {"loop", "awaitsearch"} /\ page > 1) =>
       /\ Truthy(next_page_token)
       /\ delay.count = page - 1
       /\ clock >= delay.start + Delay
  /\ pc = "sleep" =>
       /\ Truthy(next_page_token)
       /\ next_page_token = Get(json_response, "next_page_token", NoneVal)
       /\ delay.count = page
       /\ \A i \in TaskIds : tasks[i].st = "done"
       /\ ~ENABLED (SearchMiss \/ \E i \in 1..MaxPerPage : DetailMiss(i))
  /\ pc \in Terminal => delay.count = page - 1

C7_Witness ==
  pc = "awaitsearch" /\ page = 2 /\ Truthy(next_page_token) /\ delay.count = 1

\* This step issues session.get(url).
IssuesGet(url) ==
  \/ pc = "loop" /\ pc' = "awaitsearch" /\ url = SearchUrl
  \/ \E i \in TaskIds : /\ tasks[i].st = "new"
                         /\ tasks' = [tasks EXCEPT ![i].st = "fetching"]
                         /\ url = details_url(tasks[i].place_id)

\* Some call stored the body of url less than TTL seconds ago.
FetchedWithinTtl(url) ==
  \E key \in DOMAIN cache : key[4] = url /\ clock < cache[key].expiry

AllUrls ==
  {details_url(Place(i)) : i \in 1..MaxPlace}
    \cup {build_url(Location, Radius, bt, t) :
            bt \in BusinessTypes, t \in {NoneVal, "", "tokA", "tokB"}}

\* C8: no GET is issued for a URL of which a call, whatever its session,
\* fetched the body less than TTL seconds ago: of the calls with one URL
\* inside the TTL of the first answered one, only that one reaches the
\* network.
C8_OneGetPerUrlWithinTtl ==
  [][\A url \in AllUrls : IssuesGet(url) => ~FetchedWithinTtl(url)]_vars

Expired(key) == key \in DOMAIN cache /\ clock >= cache[key].expiry

SearchKey == CacheKey(session, SearchUrl)

PassingTasks ==
  Cardinality({i \in TaskIds :
                 /\ tasks[i].st = "done"
                 /\ tasks[i].how # "fail"
                 /\ PassesFilters(Get(tasks[i].body, "result", EmptyDict), filters, clock)})

\* Number of records the page has in the run's output.
Contributed ==
  IF returned.kind = "raise" THEN 0
  ELSE Cardinality({k \in 1..Len(businesses) : businesses[k].page = page})

\* C10: a page that is over, by its results or by an exception, contributes
\* as many records as it has identifiers whose body was fetched and passes
\* the active filters.
C10_PageContribution ==
  (PageFinished \/ pc = "crashed") => Contributed = PassingTasks

\* C13: a run that ended on a failed search fetch hands its caller something
\* else than a run that ended normally with the same accumulated records:
\* the error comes with the partial records.
C13_FailureSurfaced ==
  pc = "failed" => returned # ReturnList(businesses)

\* C14: every iteration of the page loop issues a GET for its search URL; no
\* iteration takes its page from the cache.
C14_SearchNeverCached ==
  [][(pc = "loop" /\ pc' # "loop") =>
       (pc' = "awaitsearch" /\ net'.search = net.search + 1)]_vars

\* Number of search-page fetches the run has called so far.
FetchCalls == IF pc = "idle" THEN 0 ELSE IF pc = "loop" THEN page - 1 ELSE page

\* C15: the messages the callback received are "Searching page 1...",
\* "Searching page 2...", ..., one per search-page fetch called so far and
\* no other; the message of a page is there before its GET is issued and
\* before its cached body is used.
C15_ProgressPerPage ==
  /\ progress = [n \in 1..FetchCalls |-> <<"Searching page ", n, "...">>]
  /\ pc = "awaitsearch" => Len(progress) = page
  /\ net.search <= Len(progress)

C15_Witness ==
  pc = "awaitsearch" /\ page = 3 /\ Len(progress) = 3 /\ net.search = 3

NoResultList == json_response # EmptyDict /\ "results" \notin DOMAIN json_response

\* C16: once a search body without a result list is in hand the run is
\* done, not failed: it has returned the list of the records of the earlier
\* pages, none of them of this page, no task is unfinished, no sleep was
\* begun for the body's token, and no fetch, task or page can follow.
C16_NoResultsEndsRun ==
  NoResultList =>
    /\ pc = "done"
    /\ returned = ReturnList(businesses)
    /\ BusinessSet = accepted
    /\ Len(businesses) = Cardinality(accepted)
    /\ \A k \in 1..Len(businesses) : businesses[k].page < page
    /\ \A i \in TaskIds : tasks[i].st = "done"
    /\ delay.count = page - 1
    /\ ~ENABLED (SearchHit \/ SearchMiss \/ SleepDone \/ GatherDone \/ GatherRaise
                   \/ \E i \in 1..MaxPerPage : DetailHit(i) \/ DetailMiss(i))

C16_Witness ==
  /\ NoResultList
  /\ pc = "done"
  /\ page >= 2
  /\ Len(businesses) >= 1
  /\ "next_page_token" \in DOMAIN json_response

\* Detail fetches whose GET is issued and not yet answered.
InFlight == Cardinality({i \in TaskIds : tasks[i].st = "fetching"})

\* A cap below the number of identifiers a page can have.
ConcurrencyCap == MaxPerPage - 1

\* C17: at no point are more detail fetches in flight than the cap.
C17_ConcurrencyCapped == InFlight <= ConcurrencyCap

\* Number of records equal to r in what the run gave its caller.
OutputCount(r) ==
  IF returned.kind = "list"
  THEN Cardinality({k \in 1..Len(returned.val) : returned.val[k] = r})
  ELSE 0

\* Occurrences, by page and position, whose detail result passed the filters
\* and gave the record r.
Occurrences(r) == {a \in accepted : a.rec = r}

\* C19: when the run has ended, a record whose place occurred several times
\* among the pages, its detail result passing the filters, is in the output
\* once per occurrence.
C19_NoDeduplication ==
  pc \in Terminal =>
    \A r \in {a.rec : a \in accepted} :
      Cardinality(Occurrences(r)) >= 2 => OutputCount(r) = Cardinality(Occurrences(r))

\* The page tokens a URL carries.
TokensIn(url) == {url[k][2] : k \in {j \in 2..Len(url) : url[j][1] = "pagetoken"}}

\* C20: the search request of page 1 carries no page token; the request of
\* a later page carries the token of the body the page before was answered
\* with, and no other; that body stays in hand from the sleep to the
\* request, and the page counter moves one page at a time.
C20_TokenChaining ==
  [][ /\ (pc' \in {"loop", "awaitsearch"} /\ page' = 1) => TokensIn(SearchUrl') = {}
      /\ (pc' \in {"loop", "awaitsearch"} /\ page' > 1) =>
            /\ "next_page_token" \in DOMAIN json_response'
            /\ TokensIn(SearchUrl') = {json_response'.next_page_token}
      /\ (page' # page /\ runs' = runs) =>
            /\ page' = page + 1
            /\ pc = "sleep"
            /\ json_response' = json_response
            /\ next_page_token' = next_page_token
      /\ (json_response' # json_response /\ runs' = runs) =>
            (pc \in {"loop", "awaitsearch"} /\ page' = page)
    ]_vars

C20_Witness ==
  /\ pc = "awaitsearch"
  /\ page = 3
  /\ json_response.next_page_token = "tokB"
  /\ TokensIn(SearchUrl) = {"tokB"}
  /\ cache[CacheKey(session, build_url(Location, Radius, business_type, NoneVal))].value.next_page_token = "tokA"

\* -------------------------------------------- claims on the filter chain
\* The call of get_business_details has returned or raised.
Enriched == Len(tasks) = 1 /\ tasks[1].st = "done" /\ tasks[1].how = "ok"

EnrichedResult == Get(tasks[1].body, "result", EmptyDict)

Named == "name" \in DOMAIN EnrichedResult

Only(f) == [g \in FilterNames |-> g = f]

\* C11: with only the operational flag active, a named result is rejected
\* exactly when it has a business_status that is not "OPERATIONAL"; a result
\* without the field is not rejected.
C11_OperationalPermissive ==
  (Enriched /\ Named /\ filters = Only("operational")) =>
    ( tasks[1].out = ReturnNone
        <=> ( /\ "business_status" \in DOMAIN EnrichedResult
              /\ EnrichedResult.business_status # "OPERATIONAL" ) )

Active == {f \in FilterNames : filters[f]}

\* get_business_details returns a record for the body under the flags flt.
Accepts(flt) == DetailOutcome(tasks[1].body, flt, clock).kind = "record"

CheckOrders ==
  {o \in [1..Cardinality(FilterNames) -> FilterNames] :
     \A i, j \in DOMAIN o : o[i] = o[j] => i = j}

\* The active checks taken one by one in the given order, stopping at the
\* first that rejects.
RECURSIVE ChainAccepts(_)
ChainAccepts(order) ==
  IF Len(order) = 0 THEN TRUE
  ELSE IF filters[Head(order)] /\ ~Accepts(Only(Head(order))) THEN FALSE
  ELSE ChainAccepts(Tail(order))

\* C12: for a fetched result with a name and any combination of the flags,
\* a record is returned exactly when a record is returned under each active
\* flag alone; with no flag active a record is returned; and taking the
\* checks in any order gives the same outcome.
C12_FlagsIndependent ==
  (Enriched /\ Named) =>
    /\ tasks[1].out.kind \in {"record", "none"}
    /\ tasks[1].out.kind = "record" <=> \A f \in Active : Accepts(Only(f))
    /\ Active = {} => tasks[1].out = [kind |-> "record", rec |-> BusinessRecord(EnrichedResult)]
    /\ \A o \in CheckOrders : ChainAccepts(o) <=> tasks[1].out.kind = "record"

C12_Witness ==
  /\ Enriched /\ Named
  /\ Cardinality(Active) >= 3
  /\ tasks[1].out.kind = "record"
  /\ "reviews" \in DOMAIN EnrichedResult

\* C18: with only the without_website flag active, a named result is
\* rejected exactly when it has a website that is not empty; a result whose
\* website is present and empty is not rejected.
C18_WithoutWebsiteNonEmpty ==
  (Enriched /\ Named /\ filters = Only("without_website")) =>
    ( tasks[1].out = ReturnNone
        <=> ( /\ "website" \in DOMAIN EnrichedResult
              /\ EnrichedResult.website # "" ) )

====
